---- MODULE Spec2Model ----
(* Model of run_idt.py: the corpus loop of main() over the videos of the    *)
(* data directory, the per-channel Fisher pipeline (descriptor extraction,  *)
(* PCA halving, mixture fit, Fisher vector layout), the Feature Tables and  *)
(* the artifacts written to the target directory.                           *)
(*                                                                          *)
(* Strings are sequences of one-character strings, so that splitting,       *)
(* case folding and integer conversion are computed and not assumed.        *)
(* Numeric array contents are abstracted to their shape and to symbolic     *)
(* entries that record which gradient (part, component, column) of which    *)
(* descriptor block a Fisher vector position holds.                         *)
EXTENDS Integers, Sequences, FiniteSets, TLC

(* ------------------------------------------------------------------ *)
(* Bounds of the model                                                 *)
(* ------------------------------------------------------------------ *)

\* largest number of files in the data directory
MaxFiles == 2

\* largest number of trajectories the tracker returns for one video
MaxN == 2

\* largest number of mixture components K the configuration is given
MaxK == 2

(* ------------------------------------------------------------------ *)
(* Characters and strings                                              *)
(* ------------------------------------------------------------------ *)

Digits == {"0", "1", "2"}

\* code points, the order of Python's str comparison
Ord(ch) ==
    CASE ch = "." -> 46
      [] ch = "0" -> 48
      [] ch = "1" -> 49
      [] ch = "2" -> 50
      [] ch = "C" -> 67
      [] ch = "a" -> 97
      [] ch = "c" -> 99
      [] ch = "m" -> 109

DigitVal(ch) == Ord(ch) - 48

\* str.lower() on one character
LowerChar(ch) == IF ch = "C" THEN "c" ELSE ch

\* str.lower()
Lower(s) == [p \in 1..Len(s) |-> LowerChar(s[p])]

\* str.isdigit(): non-empty and every character a digit
IsDigitStr(s) == s # <<>> /\ \A p \in 1..Len(s) : s[p] \in Digits

RECURSIVE IntOf(_)
\* int(text) of a string of decimal digits
IntOf(s) ==
    IF s = <<>> THEN 0
    ELSE 10 * IntOf(SubSeq(s, 1, Len(s) - 1)) + DigitVal(s[Len(s)])

RECURSIVE StrLess(_, _)
\* Python's s < t on strings: lexicographic by code point, a proper prefix is smaller
StrLess(s, t) ==
    IF t = <<>> THEN FALSE
    ELSE IF s = <<>> THEN TRUE
    ELSE IF Ord(s[1]) # Ord(t[1]) THEN Ord(s[1]) < Ord(t[1])
    ELSE StrLess(Tail(s), Tail(t))

\* the file names a data directory may hold
FileNames ==
    { <<"c", "2", ".", "a">>,
      <<"c", "1", "0", ".", "a">>,
      <<"c", "0", "2", ".", "a">>,
      <<"C", "2", ".", "a">>,
      <<"c", ".", "a">>,
      <<"c", "2", ".", "m">> }

(* ------------------------------------------------------------------ *)
(* sorted_alphanumeric                                                 *)
(* ------------------------------------------------------------------ *)

RECURSIVE DigitRun(_)
\* length of the longest prefix of s made of digits
DigitRun(s) ==
    IF s = <<>> \/ s[1] \notin Digits THEN 0 ELSE 1 + DigitRun(Tail(s))

RECURSIVE TextRun(_)
\* length of the longest prefix of s free of digits
TextRun(s) ==
    IF s = <<>> \/ s[1] \in Digits THEN 0 ELSE 1 + TextRun(Tail(s))

RECURSIVE ReSplit(_)
\* re.split('([0-9]+)', key): text, digits, text, ..., text (texts may be empty)
ReSplit(s) ==
    LET t    == TextRun(s)
        rest == SubSeq(s, t + 1, Len(s))
        g    == DigitRun(rest)
    IN  IF rest = <<>> THEN << SubSeq(s, 1, t) >>
        ELSE << SubSeq(s, 1, t), SubSeq(rest, 1, g) >>
             \o ReSplit(SubSeq(rest, g + 1, Len(rest)))

\* convert = lambda text: int(text) if text.isdigit() else text.lower()
convert(text) ==
    IF IsDigitStr(text)
    THEN [isInt |-> TRUE,  n |-> IntOf(text), s |-> <<>>]
    ELSE [isInt |-> FALSE, n |-> 0,           s |-> Lower(text)]

\* alphanum_key = lambda key: [convert(c) for c in re.split('([0-9]+)', key)]
alphanum_key(key) ==
    LET parts == ReSplit(key) IN [p \in 1..Len(parts) |-> convert(parts[p])]

\* x < y on two elements of a key. Texts stand at odd and digit runs at even
\* positions of every key, so both elements are always of the same kind.
ElemLess(x, y) ==
    IF x.isInt /\ y.isInt THEN x.n < y.n ELSE StrLess(x.s, y.s)

RECURSIVE KeyLess(_, _)
\* Python's a < b on lists: the first differing position decides, a proper
\* prefix is smaller
KeyLess(a, b) ==
    IF b = <<>> THEN FALSE
    ELSE IF a = <<>> THEN TRUE
    ELSE IF a[1] # b[1] THEN ElemLess(a[1], b[1])
    ELSE KeyLess(Tail(a), Tail(b))

RECURSIVE InsertStable(_, _)
\* insert x into the sorted list after every element whose key is not greater
InsertStable(sortedList, x) ==
    IF sortedList = <<>> THEN << x >>
    ELSE IF KeyLess(alphanum_key(x), alphanum_key(sortedList[1]))
         THEN << x >> \o sortedList
         ELSE << sortedList[1] >> \o InsertStable(Tail(sortedList), x)

RECURSIVE sorted_alphanumeric(_)
\* sorted(data, key=alphanum_key): a stable sort, equal keys keep the order of data
sorted_alphanumeric(data) ==
    IF data = <<>> THEN <<>>
    ELSE InsertStable(sorted_alphanumeric(SubSeq(data, 1, Len(data) - 1)),
                      data[Len(data)])

(* ------------------------------------------------------------------ *)
(* os.path                                                             *)
(* ------------------------------------------------------------------ *)

RECURSIVE LastDot(_)
\* position of the last "." of s, 0 when there is none
LastDot(s) ==
    IF s = <<>> THEN 0
    ELSE IF s[Len(s)] = "." THEN Len(s)
    ELSE LastDot(SubSeq(s, 1, Len(s) - 1))

\* os.path.splitext(os.path.split(file)[1])[0]: a listdir entry holds no
\* separator, so split(file)[1] is file; the extension starts at the last dot,
\* unless only dots precede it
VideoName(file) ==
    LET p == LastDot(file)
    IN  IF p > 0 /\ \E q \in 1..(p - 1) : file[q] # "."
        THEN SubSeq(file, 1, p - 1)
        ELSE file

(* ------------------------------------------------------------------ *)
(* Trajectory records and descriptor extraction                        *)
(* ------------------------------------------------------------------ *)

\* the per-block shapes the tracker may attach to every record of a run:
\* flat blocks of even and odd dimension, a two-dimensional block, and a HOF
\* block wider than the HOG block (as 108 is wider than 96)
Schemas ==
    { [hog |-> <<2>>,    hof |-> <<3>>, mbh_x |-> <<2>>,    mbh_y |-> <<2>>],
      [hog |-> <<2>>,    hof |-> <<6>>, mbh_x |-> <<2>>,    mbh_y |-> <<2>>],
      [hog |-> <<4>>,    hof |-> <<2>>, mbh_x |-> <<4>>,    mbh_y |-> <<4>>],
      [hog |-> <<2, 2>>, hof |-> <<3>>, mbh_x |-> <<2, 2>>, mbh_y |-> <<2>>] }

\* one record of the tracker's output: leading fields, then the blocks read at
\* the offsets -5, -4, -3, -2 from the end, then the last field
Record(sch) ==
    << [block |-> "lead",  shape |-> <<>>],
       [block |-> "hog",   shape |-> sch.hog],
       [block |-> "hof",   shape |-> sch.hof],
       [block |-> "mbh_x", shape |-> sch.mbh_x],
       [block |-> "mbh_y", shape |-> sch.mbh_y],
       [block |-> "last",  shape |-> <<>>] >>

\* densetrack.densetrack(video, adjust_camera=True): n records of one schema
densetrack(f, n, sch) == [file |-> f, n |-> n, rec |-> Record(sch)]

NoTracks == [file |-> <<>>, n |-> 0, rec |-> <<>>]

\* np.array([descriptors[i][off] for i in range(descriptors.shape[0])]) with
\* off counted from the end: shape (n,) + block shape, and (0,) for no record
ReadBlock(descriptors, off) ==
    LET fld == descriptors.rec[Len(descriptors.rec) + 1 - off]
    IN  [video |-> descriptors.file,
         block |-> fld.block,
         shape |-> IF descriptors.n = 0 THEN << 0 >>
                   ELSE << descriptors.n >> \o fld.shape]

read_hog(descriptors) == ReadBlock(descriptors, 5)

read_hof(descriptors) == ReadBlock(descriptors, 4)

read_mbh(descriptors) ==
    [x |-> ReadBlock(descriptors, 3), y |-> ReadBlock(descriptors, 2)]

(* ------------------------------------------------------------------ *)
(* Fisher vector                                                       *)
(* ------------------------------------------------------------------ *)

RECURSIVE Prod(_)
\* np.prod of a shape
Prod(shape) == IF shape = <<>> THEN 1 ELSE shape[1] * Prod(Tail(shape))

Min(a, b) == IF a < b THEN a ELSE b

RECURSIVE Flatten(_)
\* ndarray.flatten() of a matrix given as a sequence of rows: row-major
Flatten(m) == IF m = <<>> THEN <<>> ELSE m[1] \o Flatten(Tail(m))

\* the derivative matrix of one part: K rows of d columns; an entry stands
\* for the number computed from the descriptors xx
Gradient(xx, part, K_, d) ==
    [k \in 1..K_ |->
        [j \in 1..d |->
            [video |-> xx.video, src |-> xx.block, part |-> part, k |-> k, j |-> j]]]

\* fisher_vector with the variance gradients stacked before the mean gradients
fisher_vector_swapped(xx, gmm) ==
    LET d       == xx.shape[2]
        d_pi    == [k \in 1..gmm.K |->
                       [video |-> xx.video, src |-> xx.block, part |-> "d_pi",
                        k |-> k, j |-> 0]]
        d_mu    == Gradient(xx, "d_mu", gmm.K, d)
        d_sigma == Gradient(xx, "d_sigma", gmm.K, d)
    IN  d_pi \o Flatten(d_sigma) \o Flatten(d_mu)

\* fisher_vector(xx, gmm): xx of shape (N, d), gmm of K components over d
\* columns; np.hstack((d_pi, d_mu.flatten(), d_sigma.flatten()))
fisher_vector(xx, gmm) ==
    LET d       == xx.shape[2]
        d_pi    == [k \in 1..gmm.K |->
                       [video |-> xx.video, src |-> xx.block, part |-> "d_pi",
                        k |-> k, j |-> 0]]
        d_mu    == Gradient(xx, "d_mu", gmm.K, d)
        d_sigma == Gradient(xx, "d_sigma", gmm.K, d)
    IN  d_pi \o Flatten(d_mu) \o Flatten(d_sigma)

\* fisher_descriptor(descriptor) with the module constant K as a parameter:
\* flatten blocks of more than one dimension, halve the dimension with PCA,
\* fit the mixture, encode. exc names the exception that leaves the function.
fisher_descriptor(descriptor, K_) ==
    LET flat == IF Len(descriptor.shape) > 2
                THEN << descriptor.shape[1], Prod(Tail(descriptor.shape)) >>
                ELSE descriptor.shape
    IN  IF Len(flat) < 2
        THEN \* descriptor.shape[1] of a one-dimensional array
             [exc |-> "IndexError", fv |-> <<>>]
        ELSE
        LET N            == flat[1]
            D            == flat[2]
            n_components == D \div 2
        IN  IF n_components > Min(N, D) \/ n_components = 0
            THEN \* PCA.fit: n_components must be within min(n_samples, n_features)
                 [exc |-> "ValueError", fv |-> <<>>]
            ELSE IF N < 2 \/ N < K_
            THEN \* GaussianMixture.fit: at least 2 samples and n_components samples
                 [exc |-> "ValueError", fv |-> <<>>]
            ELSE [exc |-> "none",
                  fv  |-> fisher_vector(
                              [video |-> descriptor.video,
                               block |-> descriptor.block,
                               shape |-> << N, n_components >>],
                              [K |-> K_, d |-> n_components])]

(* ------------------------------------------------------------------ *)
(* Feature Tables                                                      *)
(* ------------------------------------------------------------------ *)

DigitChar == << "0", "1", "2", "3", "4", "5", "6", "7", "8", "9" >>

RECURSIVE Str(_)
\* str(i) of a natural number
Str(n) ==
    IF n < 10 THEN << DigitChar[n + 1] >>
    ELSE Str(n \div 10) \o << DigitChar[(n % 10) + 1] >>

NameColumn == << "n", "a", "m", "e" >>

NaN == [video |-> <<>>, src |-> "NaN", part |-> "NaN", k |-> 0, j |-> 0]

\* pd.DataFrame()
EmptyFrame == [columns |-> <<>>, rows |-> <<>>]

\* DataFrame.empty: some axis has length 0
IsEmptyFrame(data_frame) == data_frame.columns = <<>> \/ data_frame.rows = <<>>

\* add_row_to_table with the new row concatenated before the rows present
add_row_to_table_first(data_frame, name_, features) ==
    LET cols == IF IsEmptyFrame(data_frame)
                THEN << NameColumn >> \o [c \in 1..Len(features) |-> Str(c - 1)]
                ELSE data_frame.columns
        row  == [name   |-> name_,
                 values |-> [c \in 1..(Len(cols) - 1) |->
                               IF c <= Len(features) THEN features[c] ELSE NaN]]
    IN  [columns |-> cols,
         rows    |-> << row >> \o
                     (IF IsEmptyFrame(data_frame) THEN <<>> ELSE data_frame.rows)]

\* add_row_to_table(data_frame, name, features): an empty frame first gets the
\* columns 'name', '0', ..., str(len(features) - 1); the new row takes the
\* frame's columns (a missing feature is NaN, an extra one is dropped) and is
\* concatenated after the rows present
add_row_to_table(data_frame, name_, features) ==
    LET cols == IF IsEmptyFrame(data_frame)
                THEN << NameColumn >> \o [c \in 1..Len(features) |-> Str(c - 1)]
                ELSE data_frame.columns
        row  == [name   |-> name_,
                 values |-> [c \in 1..(Len(cols) - 1) |->
                               IF c <= Len(features) THEN features[c] ELSE NaN]]
    IN  [columns |-> cols,
         rows    |-> (IF IsEmptyFrame(data_frame) THEN <<>> ELSE data_frame.rows)
                     \o << row >>]

NoFile == [writes |-> 0, content |-> EmptyFrame]

\* save_as_csv(data_frame, path) on the file at path: written unless the frame
\* is empty
save_as_csv(data_frame, fileAtPath) ==
    IF ~ IsEmptyFrame(data_frame)
    THEN [writes |-> fileAtPath.writes + 1, content |-> data_frame]
    ELSE fileAtPath

(* ------------------------------------------------------------------ *)
(* State of one run of main()                                          *)
(* ------------------------------------------------------------------ *)

VARIABLES
    listing,    \* os.listdir(DATA_DIRECTORY): the files in enumeration order
    enabled,    \* HOG_FISHER_VECTOR, HOF_FISHER_VECTOR, MBH_FISHER_VECTOR
    K,          \* number of mixture components
    schema,     \* block shapes of the records the tracker delivers
    pc,         \* position of main()
    order,      \* sorted_alphanumeric(os.listdir(DATA_DIRECTORY))
    i,          \* position of the current video in order, from 1
    file,       \* loop variable file
    name,       \* name of the current video
    tracks,     \* tracks of the current video, NoTracks when not bound
    bound,      \* whether hog_df, hof_df and mbh_df are bound
    df,         \* hog_df, hof_df, mbh_df
    csv,        \* features/hog_features.csv, hof_features.csv, mbh_features.csv
    npy,        \* features/<name>-trajectory.npy by name
    exc,        \* the exception that ended main(), "none" while there is none
    message     \* whether the 'No input video files' message was printed

vars == << listing, enabled, K, schema, pc, order, i, file, name, tracks,
           bound, df, csv, npy, exc, message >>

Channels == {"hog", "hof", "mbh"}

\* the directory listings: every enumeration order of every set of files
Listings ==
    UNION { { l \in [1..n -> FileNames] :
                \A p, q \in 1..n : p # q => l[p] # l[q] } : n \in 0..MaxFiles }

Init ==
    /\ listing \in Listings
    /\ enabled \in [Channels -> BOOLEAN]
    /\ K \in 1..MaxK
    /\ schema \in Schemas
    /\ pc = "start"
    /\ order = <<>>
    /\ i = 0
    /\ file = <<>>
    /\ name = <<>>
    /\ tracks = NoTracks
    /\ bound = FALSE
    /\ df = [c \in Channels |-> EmptyFrame]
    /\ csv = [c \in Channels |-> NoFile]
    /\ npy = << >>
    /\ exc = "none"
    /\ message = FALSE

\* an exception leaves main(): nothing catches it
Raise(e) ==
    /\ pc' = "raised"
    /\ exc' = e

\* lines 220-224: the message for an empty directory, else the three frames
CheckDirectory ==
    /\ pc = "start"
    /\ IF listing = <<>>
       THEN /\ message' = TRUE
            /\ pc' = "save_hog"
            /\ UNCHANGED << bound, df, order, i >>
       ELSE /\ bound' = TRUE
            /\ df' = [c \in Channels |-> EmptyFrame]
            /\ order' = sorted_alphanumeric(listing)
            /\ i' = 1
            /\ pc' = "loop"
            /\ UNCHANGED message
    /\ UNCHANGED << listing, enabled, K, schema, file, name, tracks, csv, npy, exc >>

\* lines 226-232: the next file of the loop, its tracks and its name
NextVideo ==
    /\ pc = "loop"
    /\ IF i > Len(order)
       THEN /\ pc' = "save_hog"
            /\ UNCHANGED << file, name, tracks >>
       ELSE \E n \in 0..MaxN :
            /\ file' = order[i]
            /\ tracks' = densetrack(order[i], n, schema)
            /\ name' = VideoName(order[i])
            /\ pc' = "branch"
    /\ UNCHANGED << listing, enabled, K, schema, order, i, bound, df, csv, npy,
                    exc, message >>

\* the suffix main() gives the raw-trajectory file of a video
TrajectorySuffix == << "-", "t", "r", "a", "j", "e", "c", "t", "o", "r", "y" >>

\* np.save(path, arr): the file at path is replaced
np_save(files, path, arr) ==
    [q \in (DOMAIN files) \cup {path} |-> IF q = path THEN arr ELSE files[q]]

\* lines 234-239: raw tracks when no channel is enabled
Branch ==
    /\ pc = "branch"
    /\ IF ~ (enabled["hog"] \/ enabled["hof"] \/ enabled["mbh"])
       THEN /\ npy' = np_save(npy, name \o TrajectorySuffix, tracks)
            /\ pc' = "completed"
       ELSE /\ pc' = "hog"
            /\ UNCHANGED npy
    /\ UNCHANGED << listing, enabled, K, schema, order, i, file, name, tracks,
                    bound, df, csv, exc, message >>

\* lines 240-243
HogStep ==
    /\ pc = "hog"
    /\ IF enabled["hog"]
       THEN LET hog_fv == fisher_descriptor(read_hog(tracks), K)
            IN  IF hog_fv.exc # "none"
                THEN Raise(hog_fv.exc) /\ UNCHANGED df
                ELSE /\ df' = [df EXCEPT !["hog"] =
                                  add_row_to_table(df["hog"], name, hog_fv.fv)]
                     /\ pc' = "hof"
                     /\ UNCHANGED exc
       ELSE pc' = "hof" /\ UNCHANGED << df, exc >>
    /\ UNCHANGED << listing, enabled, K, schema, order, i, file, name, tracks,
                    bound, csv, npy, message >>

\* HofStep with its row added to hog_df instead of hof_df
HofStepIntoHog ==
    /\ pc = "hof"
    /\ IF enabled["hof"]
       THEN LET hof_fv == fisher_descriptor(read_hof(tracks), K)
            IN  IF hof_fv.exc # "none"
                THEN Raise(hof_fv.exc) /\ UNCHANGED df
                ELSE /\ df' = [df EXCEPT !["hog"] =
                                  add_row_to_table(df["hog"], name, hof_fv.fv)]
                     /\ pc' = "mbh"
                     /\ UNCHANGED exc
       ELSE pc' = "mbh" /\ UNCHANGED << df, exc >>
    /\ UNCHANGED << listing, enabled, K, schema, order, i, file, name, tracks,
                    bound, csv, npy, message >>

\* lines 244-247
HofStep ==
    /\ pc = "hof"
    /\ IF enabled["hof"]
       THEN LET hof_fv == fisher_descriptor(read_hof(tracks), K)
            IN  IF hof_fv.exc # "none"
                THEN Raise(hof_fv.exc) /\ UNCHANGED df
                ELSE /\ df' = [df EXCEPT !["hof"] =
                                  add_row_to_table(df["hof"], name, hof_fv.fv)]
                     /\ pc' = "mbh"
                     /\ UNCHANGED exc
       ELSE pc' = "mbh" /\ UNCHANGED << df, exc >>
    /\ UNCHANGED << listing, enabled, K, schema, order, i, file, name, tracks,
                    bound, csv, npy, message >>

\* the X and the Y descriptors joined column-wise and encoded once
MbhVectorJoined(descriptors, K_) ==
    IF Len(descriptors.x.shape) < 2 \/ Len(descriptors.y.shape) < 2
    THEN [exc |-> "IndexError", fv |-> <<>>]
    ELSE fisher_descriptor(
             [video |-> descriptors.x.video,
              block |-> "mbh_x",
              shape |-> << descriptors.x.shape[1],
                           Prod(Tail(descriptors.x.shape))
                           + Prod(Tail(descriptors.y.shape)) >>], K_)

\* lines 251-254: the X and the Y descriptors are encoded one after the other
\* and the two Fisher vectors concatenated
MbhVector(descriptors, K_) ==
    LET mbh_x_fv == fisher_descriptor(descriptors.x, K_)
        mbh_y_fv == fisher_descriptor(descriptors.y, K_)
    IN  IF mbh_x_fv.exc # "none" THEN mbh_x_fv
        ELSE IF mbh_y_fv.exc # "none" THEN mbh_y_fv
        ELSE [exc |-> "none", fv |-> mbh_x_fv.fv \o mbh_y_fv.fv]

\* lines 249-257
MbhStep ==
    /\ pc = "mbh"
    /\ IF enabled["mbh"]
       THEN LET mbh_fv == MbhVector(read_mbh(tracks), K)
            IN  IF mbh_fv.exc # "none"
                THEN Raise(mbh_fv.exc) /\ UNCHANGED << df, tracks >>
                ELSE /\ df' = [df EXCEPT !["mbh"] =
                                  add_row_to_table(df["mbh"], name, mbh_fv.fv)]
                     /\ tracks' = NoTracks
                     /\ pc' = "completed"
                     /\ UNCHANGED exc
       ELSE /\ tracks' = NoTracks
            /\ pc' = "completed"
            /\ UNCHANGED << df, exc >>
    /\ UNCHANGED << listing, enabled, K, schema, order, i, file, name,
                    bound, csv, npy, message >>

\* Completed with the channel files saved after every video
CompletedSavingEach ==
    /\ pc = "completed"
    /\ i' = i + 1
    /\ pc' = "loop"
    /\ csv' = [c \in Channels |->
                 IF enabled[c] THEN save_as_csv(df[c], csv[c]) ELSE csv[c]]
    /\ UNCHANGED << listing, enabled, K, schema, order, file, name, tracks,
                    bound, df, npy, exc, message >>

\* lines 259-261 and the step of the for loop
Completed ==
    /\ pc = "completed"
    /\ i' = i + 1
    /\ pc' = "loop"
    /\ UNCHANGED << listing, enabled, K, schema, order, file, name, tracks,
                    bound, df, csv, npy, exc, message >>

\* one of lines 264-269: reading a frame that was never bound raises
SaveStep(c, here, next) ==
    /\ pc = here
    /\ IF enabled[c]
       THEN IF ~ bound
            THEN Raise("UnboundLocalError") /\ UNCHANGED csv
            ELSE /\ csv' = [csv EXCEPT ![c] = save_as_csv(df[c], csv[c])]
                 /\ pc' = next
                 /\ UNCHANGED exc
       ELSE pc' = next /\ UNCHANGED << csv, exc >>
    /\ UNCHANGED << listing, enabled, K, schema, order, i, file, name, tracks,
                    bound, df, npy, message >>

\* lines 264-265
SaveHog == SaveStep("hog", "save_hog", "save_hof")

\* lines 266-267
SaveHof == SaveStep("hof", "save_hof", "save_mbh")

\* lines 268-269
SaveMbh == SaveStep("mbh", "save_mbh", "done")

Next ==
    \/ CheckDirectory
    \/ NextVideo
    \/ Branch
    \/ HogStep
    \/ HofStep
    \/ MbhStep
    \/ Completed
    \/ SaveHog
    \/ SaveHof
    \/ SaveMbh

Spec == Init /\ [][Next]_vars

\* main() has returned or an exception has left it
Terminated == pc \in {"done", "raised"}

(* ------------------------------------------------------------------ *)
(* Properties                                                          *)
(* ------------------------------------------------------------------ *)

\* the names of the rows of a frame, in row order
RowNames(data_frame) ==
    [p \in 1..Len(data_frame.rows) |-> data_frame.rows[p].name]

\* every enumeration order of the files of the listing l
Enumerations(l) ==
    { m \in [1..Len(l) -> {l[p] : p \in 1..Len(l)}] :
        \A p, q \in 1..Len(l) : p # q => m[p] # m[q] }

\* natural order on names: numeric substrings compared numerically
NaturalLess(a, b) == KeyLess(alphanum_key(a), alphanum_key(b))

\* C1: after a run that processed every video, the rows of each enabled
\* channel's table are in natural order of their names, and they are the rows
\* every other enumeration order of the same files would have produced.
C1_NaturalRowOrder ==
    (pc = "done" /\ exc = "none" /\ listing # <<>>) =>
        \A c \in Channels : enabled[c] =>
            /\ \A p, q \in 1..Len(df[c].rows) :
                   p < q => ~ NaturalLess(df[c].rows[q].name, df[c].rows[p].name)
            /\ \A m \in Enumerations(listing) :
                   RowNames(df[c]) =
                       [p \in 1..Len(m) |-> VideoName(sorted_alphanumeric(m)[p])]

\* a channel pipeline of the current video raised
PipelineFailed == exc \in {"IndexError", "ValueError"}

\* C2: when a channel pipeline of a video fails, the run still visits every
\* video and, at its end, every enabled channel's rows are persisted.
C2_FailureIsolated ==
    (Terminated /\ PipelineFailed) =>
        /\ i > Len(order)
        /\ \A c \in Channels :
               (enabled[c] /\ ~ IsEmptyFrame(df[c])) =>
                   (csv[c].writes = 1 /\ csv[c].content = df[c])

\* C3: with an empty input directory main() prints the message, raises
\* nothing, processes no video and writes no artifact.
C3_EmptyDirectoryHalts ==
    (listing = <<>> /\ pc # "start") =>
        /\ message
        /\ exc = "none"
        /\ pc # "raised"
        /\ order = <<>>
        /\ npy = << >>
        /\ \A c \in Channels : csv[c].writes = 0

\* C4: while the current video's batch is empty, no table has received a row
\* for it and the run has not been ended by an exception.
C4_EmptyBatchSkipped ==
    (tracks # NoTracks /\ tracks.n = 0) =>
        /\ exc = "none"
        /\ pc # "raised"
        /\ \A c \in Channels : Len(df[c].rows) <= i - 1

\* the loop over the videos has ended and main() is in its last lines
AfterLoop == bound /\ i > Len(order) /\ pc \in {"save_hog", "save_hof", "save_mbh", "done"}

\* C5: a channel's file is written at most once, only by an enabled channel,
\* only after the last video was processed, only with a table that has rows,
\* and it then holds the whole table.
C5_WrittenOnceAtEnd ==
    \A c \in Channels :
        /\ csv[c].writes <= 1
        /\ csv[c].writes = 1 =>
               /\ enabled[c]
               /\ AfterLoop
               /\ ~ IsEmptyFrame(df[c])
               /\ csv[c].content = df[c]
        /\ (pc = "done" /\ exc = "none" /\ enabled[c] /\ df[c].rows # <<>>) =>
               csv[c].writes = 1

\* a run of two videos with one file for an enabled channel and none for a
\* disabled one
C5_Witness ==
    /\ pc = "done"
    /\ Len(order) = 2
    /\ enabled["hog"] /\ csv["hog"].writes = 1
    /\ Len(csv["hog"].content.rows) = 2
    /\ ~ enabled["mbh"] /\ csv["mbh"].writes = 0

\* C6: with no channel enabled, at the end of the run every video has its own
\* raw-trajectory file holding its batch, no table has a row and no channel
\* file is written; with a channel enabled no raw-trajectory file is written.
C6_BypassArtifacts ==
    IF \A c \in Channels : ~ enabled[c]
    THEN /\ \A c \in Channels : df[c].rows = <<>> /\ csv[c].writes = 0
         /\ pc = "done" =>
                /\ Cardinality(DOMAIN npy) = Len(order)
                /\ \A p \in 1..Len(order) :
                       \E path \in DOMAIN npy : npy[path].file = order[p]
    ELSE npy = << >>

\* C7: no two rows of one table carry the same name.
C7_UniqueNames ==
    \A c \in Channels :
        \A p, q \in 1..Len(df[c].rows) :
            p # q => df[c].rows[p].name # df[c].rows[q].name

\* the step about to be taken calls add_row_to_table on the table of channel c
Appends(c) ==
    /\ pc = c
    /\ enabled[c]
    /\ pc' # "raised"

\* C8: a step that calls add_row_to_table leaves the table with one row more,
\* the rows present before unchanged and in place, the new row last and named
\* after the current video; every other step leaves the rows as they are.
C8_AppendOnly ==
    [][ \A c \in Channels :
          IF Appends(c)
          THEN /\ Len(df'[c].rows) = Len(df[c].rows) + 1
               /\ SubSeq(df'[c].rows, 1, Len(df[c].rows)) = df[c].rows
               /\ df'[c].rows[Len(df'[c].rows)].name = name
               /\ df'[c].rows[Len(df'[c].rows)].values # <<>>
          ELSE df'[c].rows = df[c].rows ]_vars

\* a row was appended to a table that already had one, from another video
C8_Witness ==
    /\ Len(df["hof"].rows) = 2
    /\ df["hof"].rows[1] # df["hof"].rows[2]

\* v holds, for the descriptors of block src, the K weight gradients, then the
\* K*d mean gradients row by row, then the K*d variance gradients row by row
FisherLayout(v, src, K_, d) ==
    /\ Len(v) = K_ + 2 * K_ * d
    /\ \A pos \in 1..Len(v) :
          /\ v[pos].src = src
          /\ IF pos <= K_
             THEN v[pos].part = "d_pi" /\ v[pos].k = pos
             ELSE IF pos <= K_ + K_ * d
             THEN /\ v[pos].part = "d_mu"
                  /\ v[pos].k = ((pos - K_ - 1) \div d) + 1
                  /\ v[pos].j = ((pos - K_ - 1) % d) + 1
             ELSE /\ v[pos].part = "d_sigma"
                  /\ v[pos].k = ((pos - K_ - K_ * d - 1) \div d) + 1
                  /\ v[pos].j = ((pos - K_ - K_ * d - 1) % d) + 1

\* scenario A: 50 trajectories, D = 96, K = 4. The scenario is the same in
\* every state and is evaluated in the initial states.
ScenarioA ==
    fisher_descriptor([video |-> <<>>, block |-> "hog", shape |-> << 50, 96 >>], 4)

\* C9: every Fisher vector of the HOG and HOF channels has length K + 2*K*d
\* for the reduced dimension d, laid out as weight, mean and variance
\* gradients; d is D/2 for an even descriptor dimension D; 388 entries for
\* D = 96 and K = 4.
C9_FisherVectorLayout ==
    /\ \A c \in {"hog", "hof"} :
          \A p \in 1..Len(df[c].rows) :
              LET D == Prod(schema[c])
              IN  /\ FisherLayout(df[c].rows[p].values, c, K, D \div 2)
                  /\ D % 2 = 0 =>
                        2 * Len(df[c].rows[p].values) = 2 * K + 2 * K * D
    /\ pc = "start" =>
          /\ ScenarioA.exc = "none"
          /\ Len(ScenarioA.fv) = 388
          /\ FisherLayout(ScenarioA.fv, "hog", 4, 48)

\* a HOG vector of two components over two reduced columns and a HOF vector
\* from an odd descriptor dimension
C9_Witness ==
    /\ K = 2
    /\ Prod(schema["hog"]) = 4
    /\ df["hog"].rows # <<>>
    /\ Prod(schema["hof"]) = 3
    /\ df["hof"].rows # <<>>

\* scenario B: 50 trajectories, D = 96 on each axis, K = 4, evaluated in the
\* initial states
ScenarioB ==
    MbhVector([x |-> [video |-> <<>>, block |-> "mbh_x", shape |-> << 50, 96 >>],
               y |-> [video |-> <<>>, block |-> "mbh_y", shape |-> << 50, 96 >>]], 4)

\* C10: every row of the MBH table is the Fisher vector of the X descriptors
\* followed by the Fisher vector of the Y descriptors, each with the layout of
\* its own reduced dimension; with the same dimension D on both axes the
\* length is 2*(K + 2*K*(D/2)); 776 entries for D = 96 and K = 4.
C10_MbhConcatenation ==
    /\ \A p \in 1..Len(df["mbh"].rows) :
          LET v  == df["mbh"].rows[p].values
              dx == Prod(schema["mbh_x"]) \div 2
              dy == Prod(schema["mbh_y"]) \div 2
              lx == K + 2 * K * dx
          IN  /\ Len(v) = lx + K + 2 * K * dy
              /\ FisherLayout(SubSeq(v, 1, lx), "mbh_x", K, dx)
              /\ FisherLayout(SubSeq(v, lx + 1, Len(v)), "mbh_y", K, dy)
              /\ dx = dy => Len(v) = 2 * (K + 2 * K * dx)
    /\ pc = "start" =>
          /\ ScenarioB.exc = "none"
          /\ Len(ScenarioB.fv) = 776
          /\ FisherLayout(SubSeq(ScenarioB.fv, 1, 388), "mbh_x", 4, 48)
          /\ FisherLayout(SubSeq(ScenarioB.fv, 389, 776), "mbh_y", 4, 48)

\* an MBH row of two components with the same dimension on both axes
C10_Witness ==
    /\ K = 2
    /\ Prod(schema["mbh_x"]) = 4
    /\ Prod(schema["mbh_y"]) = 4
    /\ df["mbh"].rows # <<>>

\* the channel step of c has been passed for the current video
Passed(c) ==
    CASE c = "hog" -> pc \in {"hof", "mbh", "completed"}
      [] c = "hof" -> pc \in {"mbh", "completed"}
      [] c = "mbh" -> pc = "completed"

\* the names of the first n videos of the loop
FirstNames(n) == [p \in 1..n |-> VideoName(order[p])]

C11_PartialVideo ==
    /\ pc = "raised"
    /\ enabled["hog"] /\ enabled["hof"]
    /\ Len(df["hog"].rows) = Len(df["hof"].rows) + 1

====
